---- MODULE Spec2Model ----
(***************************************************************************)
(* Model of notebooks/06.02-Simulation-and-Open-Loop-Optimal-Control.py.   *)
(*                                                                         *)
(* The file is a sequence of eleven notebook cells (In[92] ... In[61])     *)
(* that share one module-level namespace.  A cell is a straight-line list  *)
(* of statements; a statement evaluates names in Python's evaluation       *)
(* order, may fault (NameError, TypeError, KeyError), and otherwise binds   *)
(* names and mutates the Pyomo model bound to m.  A fault ends the cell:    *)
(* the file holds no try/except.                                           *)
(*                                                                         *)
(* Three specifications:                                                   *)
(*   Spec      the namespace machine: any cell may be executed next;       *)
(*   SpecTraj  the tracking control cell poses its problem, then the       *)
(*             forward-Euler propagation of line 481 runs over candidate   *)
(*             inputs and disturbances;                                    *)
(*   SpecR     the piecewise-linear reference r(t) of lines 321-322.       *)
(***************************************************************************)
EXTENDS Integers, Sequences, FiniteSets, TLC

VARIABLES
    ns,      \* module-level namespace: name -> value
    pm,      \* the Pyomo model object last bound to m (its declared parts)
    pos,     \* k if the cells run so far are exactly cells 1..k in file order, else -1
    runs,    \* the number of cell executions so far
    last,    \* the fault that ended the cell executed last (kind "none": it ran through)
    tk,      \* SpecTraj: index of the current grid point
    tx,      \* SpecTraj: state x[t] = <<T_H, T_S>>, two exact rationals
    tu,      \* SpecTraj: the inputs u[t] chosen at the grid points up to the current one
    tfl,     \* SpecTraj: the problem posed (prob), its initial state x0 and the
             \* disturbances ds used so far
    rt,      \* SpecR: the argument t
    rv       \* SpecR: r(t) in thousandths of a degree, -1 before the call

nbvars == <<ns, pm, pos, runs, last>>
trvars == <<tk, tx, tu, tfl>>
rvars == <<rt, rv>>
vars == <<ns, pm, pos, runs, last, tk, tx, tu, tfl, rt, rv>>

(***************************************************************************)
(* Values.  A number is v * 10^-e with v not divisible by 10 unless e = 0, *)
(* so 21.0 and 21 are the same value, as they compare equal in Python.     *)
(* Any other object is identified by its kind and the line creating it.    *)
(* An array, a dict or a list built by a comprehension over the time grid   *)
(* carries the points it was built over: cnt points lo + i*step, numerators *)
(* over den (np.linspace(0, stop, n+1) yields the points i*stop/n).  A list *)
(* of constraints also carries what its item at point t is: its kind c, the *)
(* earlier point t - off it refers to, and its number h.                    *)
(***************************************************************************)
Prog(lo, step, cnt) == [lo |-> lo, step |-> step, cnt |-> cnt]
NoProg == Prog(0, 0, 0)
Tmpl(c, off, h) == [c |-> c, off |-> off, h |-> h]
NoTmpl == Tmpl("", 0, 0)

Val(k, v, e, attr, den, pts, tmpl) ==
    [k |-> k, v |-> v, e |-> e, attr |-> attr, den |-> den, pts |-> pts, tmpl |-> tmpl]

Unbound == Val("unbound", 0, 0, "", 0, NoProg, NoTmpl)

Num(v, e) == Val("num", v, e, "", 0, NoProg, NoTmpl)

Obj(kind, line) == Val(kind, line, 0, "", 0, NoProg, NoTmpl)

\* the i-th point (from 1) of a progression, and whether key is one of its points
PointAt(pts, i) == pts.lo + (i - 1) * pts.step
HasPoint(pts, key) ==
    /\ pts.cnt > 0
    /\ key >= pts.lo
    /\ (key - pts.lo) % pts.step = 0
    /\ (key - pts.lo) \div pts.step < pts.cnt

RECURSIVE Pow10(_)
Pow10(e) == IF e = 0 THEN 1 ELSE 10 * Pow10(e - 1)

\* a number in thousandths (exact for every number of the file)
Milli(val) == IF val.e <= 3 THEN val.v * Pow10(3 - val.e) ELSE val.v \div Pow10(val.e - 3)

NumMul(a, b) == Num(a.v * b.v, a.e + b.e)

Names ==
    {"np", "plt", "alpha", "P", "Ua", "CpH", "CpS", "Ub", "Tamb", "tf", "u", "pyo",
     "dae", "m", "heater1", "sensor1", "fig", "ax", "t_final", "T_final", "ise",
     "objective", "dt", "n", "t_grid", "r", "cp", "P1", "P2", "A", "Bu", "Bd", "C",
     "x", "y", "model", "output", "IC", "problem", "fix", "a", "d", "t", "inputs",
     "rate"}

(***************************************************************************)
(* Parameter estimates (lines 32-38, repeated at 376-382).                 *)
(***************************************************************************)
alpha == Num(16, 5)
P == Num(200, 0)
P1 == Num(200, 0)
P2 == Num(100, 0)
Ua == Num(5, 2)
CpH == Num(22, 1)
CpS == Num(19, 1)
Ub == Num(21, 3)
Tamb == Num(21, 0)

(***************************************************************************)
(* Statements.  pre: the names evaluated once, in order; iter: the         *)
(* iteration of a comprehension ("grid": for t in t_grid, "grid1": for t   *)
(* in t_grid[1:]); ops: the names evaluated in each iteration; binds: the  *)
(* module-level names the statement assigns; eff/arg/num: its effect on    *)
(* the Pyomo model.                                                        *)
(***************************************************************************)
Rd(nm) == <<"read", nm>>
Call(nm) == <<"call", nm>>
ItemT(nm) == <<"item_t", nm>>
ItemPrev(nm) == <<"item_prev", nm>>
Item0(nm) == <<"item_0", nm>>

B(nm, val) == [n |-> nm, mk |-> "lit", val |-> val]
Mk(nm, mk, line) == [n |-> nm, mk |-> mk, val |-> Obj(mk, line)]

St(line, pre, iter, ops, binds, eff, arg, num) ==
    [line |-> line, pre |-> pre, iter |-> iter, ops |-> ops, binds |-> binds,
     eff |-> eff, arg |-> arg, num |-> num]

Asg(line, nm, val) == St(line, <<>>, "none", <<>>, <<B(nm, val)>>, "", "", 0)
Imp(line, nm) == Asg(line, nm, Obj("module", 0))
Use(line, pre) == St(line, pre, "none", <<>>, <<>>, "", "", 0)
Let(line, pre, nm, val) == St(line, pre, "none", <<>>, <<B(nm, val)>>, "", "", 0)
Pm(line, pre, eff, arg, num) == St(line, pre, "none", <<>>, <<>>, eff, arg, num)

(***************************************************************************)
(* The cells, in file order.                                               *)
(***************************************************************************)
\* In[92], lines 11-12
CellIn92 == <<Imp(11, "np"), Imp(12, "plt")>>

\* In[93], lines 32-38
CellIn93 ==
    <<Asg(32, "alpha", alpha), Asg(33, "P", P), Asg(34, "Ua", Ua), Asg(35, "CpH", CpH),
      Asg(36, "CpS", CpS), Asg(37, "Ub", Ub), Asg(38, "Tamb", Tamb)>>

\* In[96], In[98] and In[99] are one text, at line offsets o1 (first two lines) and o2,
\* that differs only in the name read for the end of the time horizon (lines 63/130/186).
\* A rule decorated onto a ConcreteModel is evaluated when it is declared, so the names
\* of its body (lines 72, 76) are read by the declaration.
SimCell(o1, o2, hname) ==
    <<Asg(55 + o1, "tf", Num(200, 0)),
      Asg(56 + o1, "u", Num(50, 0)),
      Imp(58 + o2, "pyo"),
      Imp(59 + o2, "dae"),
      St(61 + o2, <<Rd("pyo")>>, "none", <<>>, <<B("m", Obj("ConcreteModel", 61 + o2))>>,
         "pm_new", "", 0),
      Pm(63 + o2, <<Rd("dae"), Rd(hname), Rd("m")>>, "pm_t", hname, 0),
      Pm(64 + o2, <<Rd("pyo"), Rd("m")>>, "pm_var", "Th", 0),
      Pm(65 + o2, <<Rd("pyo"), Rd("m")>>, "pm_var", "Ts", 0),
      Pm(67 + o2, <<Rd("dae"), Rd("m")>>, "pm_var", "dTh", 0),
      Pm(68 + o2, <<Rd("dae"), Rd("m")>>, "pm_var", "dTs", 0),
      St(70 + o2, <<Rd("m"), Rd("CpH"), Rd("Ua"), Rd("Tamb"), Rd("Ub"), Rd("alpha"),
                    Rd("P"), Rd("u")>>, "none", <<>>,
         <<B("heater1", Obj("Constraint", 70 + o2))>>, "pm_heater", "u", 0),
      St(74 + o2, <<Rd("m"), Rd("CpS"), Rd("Ub")>>, "none", <<>>,
         <<B("sensor1", Obj("Constraint", 74 + o2))>>, "pm_sensor", "", 0),
      Pm(78 + o2, <<Rd("m")>>, "pm_fix", "Th", 30000),
      Pm(79 + o2, <<Rd("m")>>, "pm_fix", "Ts", 30000),
      Pm(81 + o2, <<Rd("pyo"), Rd("m")>>, "pm_disc", "", 50),
      Pm(82 + o2, <<Rd("pyo"), Rd("m")>>, "pm_solve", "", 0),
      St(84 + o2, <<Rd("plt")>>, "none", <<>>,
         <<B("fig", Obj("Figure", 84 + o2)), B("ax", Obj("Axes", 84 + o2))>>, "", "", 0),
      Use(86 + o2, <<Rd("ax"), Rd("m")>>),
      Use(92 + o2, <<Rd("ax"), Rd("u")>>)>>

\* In[96], lines 55-95
CellIn96 == SimCell(0, 0, "tf")

\* In[98] reading tf, the name the cell assigns, at line 130
CellIn98_tf == SimCell(65, 67, "tf")

\* In[98], lines 120-162
CellIn98 == SimCell(65, 67, "t_final")

\* In[99], lines 176-218
CellIn99 == SimCell(121, 123, "t_final")

\* In[75], lines 255-301
CellIn75 ==
    <<Asg(255, "T_final", Num(500, 0)),
      Imp(256, "pyo"),
      Imp(257, "dae"),
      St(259, <<Rd("pyo")>>, "none", <<>>, <<B("m", Obj("ConcreteModel", 259))>>,
         "pm_new", "", 0),
      Pm(261, <<Rd("dae"), Rd("T_final"), Rd("m")>>, "pm_t", "T_final", 0),
      Pm(262, <<Rd("pyo"), Rd("m")>>, "pm_var", "Th1", 0),
      Pm(263, <<Rd("pyo"), Rd("m")>>, "pm_var", "Ts1", 0),
      Pm(264, <<Rd("pyo"), Rd("m")>>, "pm_var", "u1", 50),
      Pm(266, <<Rd("dae"), Rd("m")>>, "pm_var", "dTh1", 0),
      Pm(267, <<Rd("dae"), Rd("m")>>, "pm_var", "dTs1", 0),
      St(269, <<Rd("m")>>, "none", <<>>, <<B("ise", Obj("Integral", 269))>>,
         "pm_ise", "", 40000),
      St(273, <<Rd("m"), Rd("CpH"), Rd("Ua"), Rd("Tamb"), Rd("Ub"), Rd("alpha"),
                Rd("P1")>>, "none", <<>>,
         <<B("heater1", Obj("Constraint", 273))>>, "pm_heater", "u1", 0),
      St(277, <<Rd("m"), Rd("CpS"), Rd("Ub")>>, "none", <<>>,
         <<B("sensor1", Obj("Constraint", 277))>>, "pm_sensor", "", 0),
      Pm(281, <<Rd("m")>>, "pm_fix", "Th1", 30000),
      Pm(282, <<Rd("m")>>, "pm_fix", "Ts1", 30000),
      St(284, <<Rd("m"), Rd("pyo")>>, "none", <<>>,
         <<B("objective", Obj("Objective", 284))>>, "pm_obj", "", 0),
      Pm(288, <<Rd("pyo"), Rd("m")>>, "pm_disc", "", 50),
      Pm(289, <<Rd("pyo"), Rd("m")>>, "pm_solve", "", 0),
      St(291, <<Rd("plt")>>, "none", <<>>,
         <<B("fig", Obj("Figure", 291)), B("ax", Obj("Axes", 291))>>, "", "", 0),
      Use(293, <<Rd("ax"), Rd("m")>>),
      Use(300, <<Rd("ax"), Rd("m")>>)>>

\* In[9] with another ambient temperature at line 318
CellIn9_Tamb25 ==
    <<Asg(312, "tf", Num(1000, 0)),
      Asg(313, "dt", Num(2, 0)),
      St(314, <<Rd("tf"), Rd("dt")>>, "none", <<>>, <<Mk("n", "round", 314)>>, "", "", 0),
      St(315, <<Rd("np"), Rd("n")>>, "none", <<>>, <<Mk("t_grid", "linspace", 315)>>,
         "", "", 1000),
      Asg(318, "Tamb", Num(25, 0)),
      Asg(321, "r", Obj("func", 321)),
      St(325, <<Rd("plt")>>, "none", <<>>,
         <<B("fig", Obj("Figure", 325)), B("ax", Obj("Axes", 325))>>, "", "", 0),
      Use(326, <<Rd("ax"), Rd("t_grid"), Call("r")>>),
      Use(327, <<Rd("ax")>>)>>

\* In[9], lines 312-330
CellIn9 ==
    <<Asg(312, "tf", Num(1000, 0)),
      Asg(313, "dt", Num(2, 0)),
      St(314, <<Rd("tf"), Rd("dt")>>, "none", <<>>, <<Mk("n", "round", 314)>>, "", "", 0),
      St(315, <<Rd("np"), Rd("n")>>, "none", <<>>, <<Mk("t_grid", "linspace", 315)>>,
         "", "", 1000),
      Asg(318, "Tamb", Tamb),
      Asg(321, "r", Obj("func", 321)),
      St(325, <<Rd("plt")>>, "none", <<>>,
         <<B("fig", Obj("Figure", 325)), B("ax", Obj("Axes", 325))>>, "", "", 0),
      Use(326, <<Rd("ax"), Rd("t_grid"), Call("r")>>),
      Use(327, <<Rd("ax")>>)>>

\* In[35], lines 371-388
CellIn35 ==
    <<Imp(371, "plt"), Imp(372, "np"), Imp(373, "cp"),
      Asg(376, "alpha", alpha), Asg(377, "P1", P1), Asg(378, "P2", P2),
      Asg(379, "Ua", Ua), Asg(380, "CpH", CpH), Asg(381, "CpS", CpS), Asg(382, "Ub", Ub),
      Let(385, <<Rd("np"), Rd("Ua"), Rd("Ub"), Rd("CpH"), Rd("CpS")>>, "A",
          Obj("ndarray", 385)),
      Let(386, <<Rd("np"), Rd("alpha"), Rd("P1"), Rd("CpH")>>, "Bu", Obj("ndarray", 386)),
      Let(387, <<Rd("np"), Rd("Ua"), Rd("CpH")>>, "Bd", Obj("ndarray", 387)),
      Let(388, <<Rd("np")>>, "C", Obj("ndarray", 388))>>

\* line 408 iterating over t_grid instead of t_grid[1:]
ModelStmt56_AllGrid ==
    St(408, <<Rd("t_grid")>>, "grid",
       <<ItemT("x"), Rd("dt"), ItemPrev("x"), Rd("A"), Rd("Bu"), Call("u"), Rd("Bd"),
         Call("d")>>,
       <<Mk("model", "euler_call", 408)>>, "", "", 0)

\* line 408: model = [x[t] == x[t-dt] + dt*(A@x[t-dt] + Bu@[u(t-dt)] + Bd@[d(t-dt)])
\*                    for t in t_grid[1:]]
ModelStmt56 ==
    St(408, <<Rd("t_grid")>>, "grid1",
       <<ItemT("x"), Rd("dt"), ItemPrev("x"), Rd("A"), Rd("Bu"), Call("u"), Rd("Bd"),
         Call("d")>>,
       <<Mk("model", "euler_call", 408)>>, "", "", 0)

\* In[56], lines 401-430: the tracking simulation cell
CellIn56 ==
    <<St(401, <<Rd("t_grid")>>, "grid", <<Rd("cp")>>, <<Mk("x", "dict2", 401)>>, "", "", 0),
      St(402, <<Rd("t_grid")>>, "grid", <<Rd("cp")>>, <<Mk("y", "dict1", 402)>>, "", "", 0),
      Let(405, <<Rd("cp")>>, "objective", Obj("Minimize", 405)),
      ModelStmt56,
      St(409, <<Rd("t_grid")>>, "grid", <<ItemT("y"), Rd("C"), ItemT("x")>>,
         <<Mk("output", "output", 409)>>, "", "", 0),
      St(410, <<Item0("x"), Rd("np"), Rd("Tamb")>>, "none", <<>>,
         <<Mk("IC", "ic", 410)>>, "", "", 0),
      Let(413, <<Rd("cp"), Rd("objective"), Rd("model"), Rd("IC"), Rd("output")>>,
          "problem", Obj("Problem", 413)),
      Use(414, <<Rd("problem")>>),
      St(417, <<Rd("plt")>>, "none", <<>>,
         <<B("fix", Obj("Figure", 417)), B("ax", Obj("Axes", 417))>>, "", "", 0),
      St(418, <<Rd("ax"), Rd("t_grid")>>, "grid", <<ItemT("x")>>, <<>>, "", "", 0),
      St(420, <<Rd("ax"), Rd("t_grid")>>, "grid", <<Call("r")>>, <<>>, "", "", 0),
      Use(421, <<Rd("ax")>>),
      St(423, <<Rd("ax"), Rd("t_grid")>>, "grid", <<Call("u")>>, <<>>, "", "", 0),
      Use(424, <<Rd("ax")>>),
      St(425, <<Rd("ax"), Rd("t_grid")>>, "grid", <<Call("d")>>, <<>>, "", "", 0),
      Use(426, <<Rd("ax")>>),
      Let(427, <<Rd("ax")>>, "a", Obj("Axes", 417)),
      Use(430, <<Rd("plt")>>)>>

\* In[55], lines 436-457
CellIn55 ==
    <<Asg(436, "d", Obj("func", 436)),
      Asg(439, "u", Obj("func", 439)),
      St(442, <<Rd("plt")>>, "none", <<>>,
         <<B("fig", Obj("Figure", 442)), B("ax", Obj("Axes", 442))>>, "", "", 0),
      Use(443, <<Rd("ax"), Rd("t"), Call("r")>>),
      Use(444, <<Rd("ax")>>),
      Use(447, <<Rd("ax"), Rd("t"), Call("u")>>),
      Use(448, <<Rd("ax")>>),
      Use(451, <<Rd("ax"), Rd("t"), Call("d")>>),
      Use(452, <<Rd("ax")>>),
      Let(455, <<Rd("ax")>>, "a", Obj("Axes", 442)),
      Use(457, <<Rd("plt")>>)>>

\* line 481: model = [x[t] == x[t-dt] + dt*(A@x[t-dt] + Bu@u[t-dt] + Bd@[d(t-dt)])
\*                    for t in t_grid[1:]]
ModelStmt61 ==
    St(481, <<Rd("t_grid")>>, "grid1",
       <<ItemT("x"), Rd("dt"), ItemPrev("x"), Rd("A"), Rd("Bu"), ItemPrev("u"), Rd("Bd"),
         Call("d")>>,
       <<Mk("model", "euler_var", 481)>>, "", "", 0)

\* line 474 without nonneg=True
InputStmt61_NoNonneg ==
    St(474, <<Rd("t_grid")>>, "grid", <<Rd("cp")>>, <<Mk("u", "dict1", 474)>>, "", "", 0)

\* line 474: u = {t: cp.Variable(1, nonneg=True) for t in t_grid}
InputStmt61 ==
    St(474, <<Rd("t_grid")>>, "grid", <<Rd("cp")>>, <<Mk("u", "dict1nn", 474)>>, "", "", 0)

\* line 485: rate = [cp.abs(u[t] - u[t-dt]) <= dt*1 for t in t_grid[1:]]
RateStmt61 ==
    St(485, <<Rd("t_grid")>>, "grid1",
       <<Rd("cp"), ItemT("u"), Rd("dt"), ItemPrev("u"), Rd("dt")>>,
       <<Mk("rate", "rate", 485)>>, "", "", 1)

\* In[61], lines 474-504: the tracking control cell
CellIn61 ==
    <<InputStmt61,
      St(475, <<Rd("t_grid")>>, "grid", <<Rd("cp")>>, <<Mk("x", "dict2", 475)>>, "", "", 0),
      St(476, <<Rd("t_grid")>>, "grid", <<Rd("cp")>>, <<Mk("y", "dict1", 476)>>, "", "", 0),
      St(479, <<Rd("cp"), Rd("t_grid")>>, "grid", <<ItemT("y"), Call("r")>>,
         <<B("objective", Obj("Minimize", 479))>>, "", "", 0),
      ModelStmt61,
      St(482, <<Rd("t_grid")>>, "grid", <<ItemT("y"), Rd("C"), ItemT("x")>>,
         <<Mk("output", "output", 482)>>, "", "", 0),
      St(483, <<Rd("t_grid")>>, "grid", <<ItemT("u")>>, <<Mk("inputs", "ub", 483)>>,
         "", "", 100),
      St(484, <<Item0("x"), Rd("np"), Rd("Tamb")>>, "none", <<>>,
         <<Mk("IC", "ic", 484)>>, "", "", 0),
      RateStmt61,
      Let(487, <<Rd("cp"), Rd("objective"), Rd("model"), Rd("IC"), Rd("output"),
                 Rd("inputs"), Rd("rate")>>, "problem", Obj("Problem", 487)),
      Use(488, <<Rd("problem")>>),
      St(491, <<Rd("plt")>>, "none", <<>>,
         <<B("fix", Obj("Figure", 491)), B("ax", Obj("Axes", 491))>>, "", "", 0),
      St(492, <<Rd("ax"), Rd("t_grid")>>, "grid", <<ItemT("x")>>, <<>>, "", "", 0),
      St(494, <<Rd("ax"), Rd("t_grid")>>, "grid", <<Call("r")>>, <<>>, "", "", 0),
      Use(495, <<Rd("ax")>>),
      St(497, <<Rd("ax"), Rd("t_grid")>>, "grid", <<ItemT("u")>>, <<>>, "", "", 0),
      Use(498, <<Rd("ax")>>),
      St(499, <<Rd("ax"), Rd("t_grid")>>, "grid", <<Call("d")>>, <<>>, "", "", 0),
      Use(500, <<Rd("ax")>>),
      Let(501, <<Rd("ax")>>, "a", Obj("Axes", 491)),
      Use(504, <<Rd("plt")>>)>>

Cells ==
    <<CellIn92, CellIn93, CellIn96, CellIn98, CellIn99, CellIn75, CellIn9, CellIn35,
      CellIn56, CellIn55, CellIn61>>

(***************************************************************************)
(* Evaluation of a statement.                                              *)
(***************************************************************************)
NoFault == [kind |-> "none", name |-> "", line |-> 0]
Fault(kind, nm, line) == [kind |-> kind, name |-> nm, line |-> line]

\* the module-level names the body of a function reads when it is called
\* (r: line 322, d: line 437, u: line 440)
FuncReads(val) ==
    IF val.v = 321 \/ val.v = 436 THEN <<"np", "Tamb">> ELSE <<"np">>

\* what evaluating one name does: "ok", or the exception raised and the name raising it.
\* key is the subscript of a lookup, a numerator over the grid's denominator.
OpFault(op, nsx, key) ==
    LET nm == op[2]
        val == nsx[nm]
    IN  IF val.k = "unbound" THEN <<"NameError", nm>>
        ELSE IF op[1] = "read" THEN <<"ok", nm>>
        ELSE IF op[1] = "call" THEN
            IF val.k # "func" THEN <<"TypeError", nm>>
            ELSE LET rs == FuncReads(val)
                     bad == {i \in 1..Len(rs) : nsx[rs[i]].k = "unbound"}
                 IN  IF bad = {} THEN <<"ok", nm>>
                     ELSE <<"NameError", rs[CHOOSE i \in bad : \A j \in bad : i <= j]>>
        ELSE IF val.k # "dict" THEN <<"TypeError", nm>>
        ELSE IF HasPoint(val.pts, key) THEN <<"ok", nm>>
        ELSE <<"KeyError", nm>>

\* the subscript an operation uses at grid point t: t, t - dt, or 0
KeyOf(op, nsx, t) ==
    IF op[1] = "item_prev" THEN t - nsx["dt"].v * nsx["t_grid"].den
    ELSE IF op[1] = "item_0" THEN 0
    ELSE t

\* the first operation of ops that raises, evaluated at grid point t
RECURSIVE OpsFault(_, _, _, _)
OpsFault(ops, i, nsx, t) ==
    IF i > Len(ops) THEN <<"ok", "">>
    ELSE LET f == OpFault(ops[i], nsx, KeyOf(ops[i], nsx, t))
         IN  IF f[1] # "ok" THEN f ELSE OpsFault(ops, i + 1, nsx, t)

\* the points a comprehension iterates over
Points(iter, grid) ==
    IF iter = "grid" THEN grid.pts
    ELSE IF iter = "grid1" /\ grid.pts.cnt > 0
    THEN Prog(grid.pts.lo + grid.pts.step, grid.pts.step, grid.pts.cnt - 1)
    ELSE NoProg

\* the first point (from 1) of ps at which some lookup of ops misses its key, 0 if none.
\* The points of ps, shifted by a lookup's offset, are again equally spaced, and so are
\* the keys of a dict built over the grid: all of them are keys iff the first, the
\* second and the last are; otherwise the first miss is at the first or second point,
\* or at the first point past the dict's last key.
FirstMiss(ops, nsx, ps) ==
    LET Hit(i) == \A j \in 1..Len(ops) :
                     ops[j][1] \in {"item_t", "item_prev", "item_0"} =>
                        HasPoint(nsx[ops[j][2]].pts, KeyOf(ops[j], nsx, PointAt(ps, i)))
        ends == {i \in {1, 2, ps.cnt} : i >= 1 /\ i <= ps.cnt}
    IN  IF \A i \in ends : Hit(i) THEN 0
        ELSE IF ~Hit(1) THEN 1
        ELSE IF ~Hit(2) THEN 2
        ELSE CHOOSE i \in 3..ps.cnt : ~Hit(i) /\ \A j \in 3..(i - 1) : Hit(j)

\* the fault a statement raises in namespace nsx, NoFault if it runs through.  In a
\* comprehension the names are the same at every point, so a NameError or TypeError
\* shows at its first point; only a KeyError can wait for a later point.
StmtFault(s, nsx) ==
    LET f0 == OpsFault(s.pre, 1, nsx, 0)
    IN  IF f0[1] # "ok" THEN Fault(f0[1], f0[2], s.line)
        ELSE IF s.iter = "none" THEN NoFault
        ELSE LET ps == Points(s.iter, nsx["t_grid"])
                 f1 == OpsFault(s.ops, 1, nsx, PointAt(ps, 1))
                 i0 == FirstMiss(s.ops, nsx, ps)
                 fm == OpsFault(s.ops, 1, nsx, PointAt(ps, i0))
             IN  IF ps.cnt = 0 THEN NoFault
                 ELSE IF f1[1] # "ok" THEN Fault(f1[1], f1[2], s.line)
                 ELSE IF i0 = 0 THEN NoFault
                 ELSE Fault(fm[1], fm[2], s.line)

\* Python's round(a/b) for integers a, b > 0: to nearest, ties to even
Round(a, b) ==
    LET q == a \div b
        r2 == 2 * (a % b)
    IN  IF r2 < b THEN q
        ELSE IF r2 > b THEN q + 1
        ELSE IF q % 2 = 0 THEN q ELSE q + 1

\* np.linspace(0, stop, n + 1): the points i*stop/n, kept as numerators i*stop over n
Linspace(stop, n, line) ==
    Val("ndarray", line, 0, "", n, Prog(0, stop, n + 1), NoTmpl)

\* the value a statement binds: a literal, or an object built from the namespace
Make(b, s, nsx) ==
    LET grid == nsx["t_grid"]
        ps == Points(s.iter, grid)
        h == nsx["dt"].v
        List(w, tmpl) == Val("list", s.line, 0, w, grid.den, ps, tmpl)
    IN  CASE b.mk = "lit" -> b.val
          [] b.mk = "round" -> Num(Round(nsx["tf"].v, nsx["dt"].v), 0)
          [] b.mk = "linspace" -> Linspace(s.num, nsx["n"].v, s.line)
          [] b.mk = "dict2" -> Val("dict", s.line, 2, "", grid.den, ps, NoTmpl)
          [] b.mk = "dict1" -> Val("dict", s.line, 1, "", grid.den, ps, NoTmpl)
          [] b.mk = "dict1nn" -> Val("dict", s.line, 1, "nonneg", grid.den, ps, NoTmpl)
          [] b.mk = "euler_call" -> List("call", Tmpl("euler", h * grid.den, h))
          [] b.mk = "euler_var" -> List("var", Tmpl("euler", h * grid.den, h))
          [] b.mk = "output" -> List("", Tmpl("output", 0, 0))
          [] b.mk = "ic" ->
                Val("list", s.line, 0, "", grid.den, Prog(0, 0, 1),
                    Tmpl("ic", 0, Milli(nsx["Tamb"])))
          [] b.mk = "ub" -> List("", Tmpl("ub", 0, s.num))
          [] b.mk = "rate" -> List("", Tmpl("rate", h * grid.den, h * s.num))

\* the i-th item (from 1) of a list of constraints: its kind, the point t it is about,
\* the earlier point p it refers to, its number h
ItemAt(val, i) ==
    LET t == PointAt(val.pts, i)
    IN  [c |-> val.tmpl.c, t |-> t, p |-> t - val.tmpl.off, h |-> val.tmpl.h]

\* a Pyomo model with nothing declared on it
PmEmpty(line) ==
    [by |-> line, horizon |-> -1, vars |-> {}, cons |-> {}, input |-> "none",
     ub |-> -1, th0 |-> -1, ts0 |-> -1, terminal |-> FALSE, target |-> -1,
     obj |-> FALSE, nfe |-> 0, solved |-> FALSE]

\* the effect of a statement on the Pyomo model bound to m
PmEff(s, nsx, p) ==
    CASE s.eff = "" -> p
      [] s.eff = "pm_new" -> PmEmpty(s.line)
      [] s.eff = "pm_t" -> [p EXCEPT !.horizon = nsx[s.arg].v]
      [] s.eff = "pm_var" ->
            [p EXCEPT !.vars = @ \cup {s.arg},
                      !.ub = IF s.arg = "u1" THEN s.num ELSE @]
      [] s.eff = "pm_ise" -> [p EXCEPT !.target = s.num]
      [] s.eff = "pm_heater" ->
            [p EXCEPT !.cons = @ \cup {"heater1"},
                      !.input = IF s.arg = "u" THEN "const" ELSE "var"]
      [] s.eff = "pm_sensor" -> [p EXCEPT !.cons = @ \cup {"sensor1"}]
      [] s.eff = "pm_fix" ->
            IF s.arg \in {"Th", "Th1"} THEN [p EXCEPT !.th0 = s.num]
            ELSE [p EXCEPT !.ts0 = s.num]
      [] s.eff = "pm_obj" -> [p EXCEPT !.obj = TRUE]
      [] s.eff = "pm_disc" -> [p EXCEPT !.nfe = s.num]
      [] s.eff = "pm_solve" -> [p EXCEPT !.solved = TRUE]

\* the namespace after a statement that ran through
Bind(s, nsx) ==
    IF Len(s.binds) = 0 THEN nsx
    ELSE IF Len(s.binds) = 1 THEN [nsx EXCEPT ![s.binds[1].n] = Make(s.binds[1], s, nsx)]
    ELSE [nsx EXCEPT ![s.binds[1].n] = Make(s.binds[1], s, nsx),
                     ![s.binds[2].n] = Make(s.binds[2], s, nsx)]

\* the statements of a cell from the i-th on, run until one faults
RECURSIVE Exec(_, _, _, _)
Exec(stmts, i, nsx, p) ==
    IF i > Len(stmts) THEN [ns |-> nsx, pm |-> p, f |-> NoFault]
    ELSE LET f == StmtFault(stmts[i], nsx)
         IN  IF f.kind # "none" THEN [ns |-> nsx, pm |-> p, f |-> f]
             ELSE Exec(stmts, i + 1, Bind(stmts[i], nsx), PmEff(stmts[i], nsx, p))

\* the number of cell executions explored
MaxRuns == 6

\* one execution of cell c: the whole cell, or the part before its first fault
RunCell(c) ==
    LET res == Exec(Cells[c], 1, ns, pm)
    IN  /\ runs < MaxRuns
        /\ ns' = res.ns
        /\ pm' = res.pm
        /\ runs' = runs + 1
        /\ last' = res.f
        /\ pos' = IF pos = c - 1 THEN c ELSE -1
        /\ UNCHANGED <<trvars, rvars>>

In92 == RunCell(1)
In93 == RunCell(2)
In96 == RunCell(3)
In98 == RunCell(4)
In99 == RunCell(5)
In75 == RunCell(6)
In9 == RunCell(7)
In35 == RunCell(8)
In56 == RunCell(9)
In55 == RunCell(10)
In61 == RunCell(11)

TrajIdle == tk = 0 /\ tx = <<>> /\ tu = <<>> /\ tfl = <<>>
RIdle == rt = 0 /\ rv = -1

\* a fresh namespace: nothing bound, no cell run
Fresh ==
    /\ ns = [nm \in Names |-> Unbound]
    /\ pm = PmEmpty(0)
    /\ pos = 0
    /\ runs = 0
    /\ last = NoFault

Init ==
    /\ Fresh
    /\ TrajIdle
    /\ RIdle

Next ==
    \/ In92 \/ In93 \/ In96 \/ In98 \/ In99 \/ In75
    \/ In9 \/ In35 \/ In56 \/ In55 \/ In61

Spec == Init /\ [][Next]_vars

(***************************************************************************)
(* np.interp and the three functions built on it (lines 321-322, 436-440). *)
(* Arguments are whole seconds, values thousandths; between two           *)
(* breakpoints numpy returns fp[j] + slope*(t - xp[j]) for the last j with *)
(* xp[j] <= t, which is exact here for every whole t.                      *)
(***************************************************************************)
\* np.interp taking the breakpoint after t as the base of the segment
Interp_NextBase(t, xp, fp) ==
    LET n == Len(xp)
    IN  IF t < xp[1] THEN fp[1]
        ELSE IF t >= xp[n] THEN fp[n]
        ELSE LET j == CHOOSE j \in 1..(n - 1) : xp[j] <= t /\ t < xp[j + 1]
             IN  fp[j + 1] + ((fp[j + 1] - fp[j]) * (t - xp[j])) \div (xp[j + 1] - xp[j])

Interp(t, xp, fp) ==
    LET n == Len(xp)
    IN  IF t < xp[1] THEN fp[1]
        ELSE IF t >= xp[n] THEN fp[n]
        ELSE LET j == CHOOSE j \in 1..(n - 1) : xp[j] <= t /\ t < xp[j + 1]
             IN  fp[j] + ((fp[j + 1] - fp[j]) * (t - xp[j])) \div (xp[j + 1] - xp[j])

\* line 322
r(t) ==
    Interp(t, <<0, 50, 150, 450, 550>>,
           <<Milli(Tamb), Milli(Tamb), 60000, 60000, 35000>>)

\* line 437
d(t) == Interp(t, <<0, 300, 400>>, <<Milli(Tamb), Milli(Tamb), Milli(Tamb) - 5000>>)

\* line 440
u(t) == Interp(t, <<0, 50, 50, 450, 450>>, <<0, 0, 80000, 80000, 25000>>)

\* the largest argument of r explored
TMax == 600

InitR ==
    /\ Fresh
    /\ TrajIdle
    /\ rt \in 0..TMax
    /\ rv = -1

\* one call r(rt)
EvalR ==
    /\ rv = -1
    /\ rv' = r(rt)
    /\ UNCHANGED <<rt, nbvars, trvars>>

NextR == EvalR

SpecR == InitR /\ [][NextR]_vars

\* C4: r returns exactly the specified value at each of its breakpoints:
\* r(0) = r(50) = Tamb, r(150) = r(450) = 60, r(550) = 35.
ReferenceAtBreakpoints ==
    rv # -1 =>
       /\ rt = 0 => rv = Milli(Tamb)
       /\ rt = 50 => rv = Milli(Tamb)
       /\ rt = 150 => rv = 60000
       /\ rt = 450 => rv = 60000
       /\ rt = 550 => rv = 35000

\* C4 witness: r has been called at its last breakpoint
ReferenceCalledAtLastBreakpoint == rt = 550 /\ rv = 35000

(***************************************************************************)
(* The state-space model (lines 385-388) in exact rational arithmetic, and *)
(* the forward-Euler right-hand side of lines 408 and 481.                 *)
(***************************************************************************)
RECURSIVE Gcd(_, _)
Gcd(a, b) == IF b = 0 THEN a ELSE Gcd(b, a % b)

Abs(a) == IF a < 0 THEN -a ELSE a

\* the rational n/den, den > 0, in lowest terms
Rat(n, den) == LET g == Gcd(Abs(n), den) IN [n |-> n \div g, d |-> den \div g]

RInt(i) == [n |-> i, d |-> 1]

RAdd(a, b) ==
    LET g == Gcd(a.d, b.d)
    IN  Rat(a.n * (b.d \div g) + b.n * (a.d \div g), (a.d \div g) * b.d)

RMul(a, b) ==
    LET g1 == Gcd(Abs(a.n), b.d)
        g2 == Gcd(Abs(b.n), a.d)
    IN  Rat((a.n \div g1) * (b.n \div g2), (a.d \div g2) * (b.d \div g1))

\* line 385
A ==
    <<<<Rat(-(Milli(Ua) + Milli(Ub)), Milli(CpH)), Rat(Milli(Ub), Milli(CpH))>>,
      <<Rat(Milli(Ub), Milli(CpS)), Rat(-Milli(Ub), Milli(CpS))>>>>

\* line 386
Bu == <<Rat(Milli(NumMul(alpha, P1)), Milli(CpH)), RInt(0)>>

\* line 387 with the heater-to-sensor coefficient in place of Ua
Bd_Ub == <<Rat(Milli(Ub), Milli(CpH)), RInt(0)>>

\* line 387
Bd == <<Rat(Milli(Ua), Milli(CpH)), RInt(0)>>

\* line 388
C == <<RInt(0), RInt(1)>>

Dot2(row, x) == RAdd(RMul(row[1], x[1]), RMul(row[2], x[2]))

\* x[t-dt] + dt*(A@x[t-dt] + Bu@u[t-dt] + Bd@[d(t-dt)]), with h = dt
Euler(x, uu, dd, h) ==
    [i \in 1..2 |->
        RAdd(x[i], RMul(RInt(h),
                        RAdd(RAdd(Dot2(A[i], x), RMul(Bu[i], uu)), RMul(Bd[i], dd))))]

(***************************************************************************)
(* SpecTraj: candidate solutions of the tracking control problem over the  *)
(* first Horizon steps of the grid.  The constraints are the lists the     *)
(* tracking control cell builds (CellIn61) when the cells it depends on    *)
(* have run and t_grid holds Horizon + 1 points dt apart.  The state x[t]  *)
(* is the one the model equalities determine.                              *)
(***************************************************************************)
\* the number of grid steps explored
Horizon == 3

\* a step is taken only from a state whose denominators are at most QCap
QCap == 300

Ns0 == [nm \in Names |-> Unbound]

\* the namespace after In[35], In[9] and In[55], with t_grid cut to Horizon steps
TrajBase ==
    LET n1 == Exec(CellIn35, 1, Ns0, PmEmpty(0)).ns
        n2 == Exec(CellIn9, 1, n1, PmEmpty(0)).ns
        n3 == Exec(CellIn55, 1, n2, PmEmpty(0)).ns
    IN  [n3 EXCEPT !["t_grid"] = Linspace(Horizon * n3["dt"].v, Horizon, 315)]

\* what the tracking control cell leaves bound when it runs in TrajBase
Problem ==
    LET nsx == Exec(CellIn61, 1, TrajBase, PmEmpty(0)).ns
    IN  [nm \in {"u", "model", "IC", "inputs", "rate", "t_grid", "dt"} |-> nsx[nm]]

\* the index (from 1) of the grid point with numerator key
Idx(prob, key) == (key - prob["t_grid"].pts.lo) \div prob["t_grid"].pts.step + 1

\* whether a candidate (x0, inputs us at the first Len(us) grid points) satisfies item it
Sat(prob, it, x0, us) ==
    CASE it.c = "ub" -> us[Idx(prob, it.t)] <= it.h
      [] it.c = "rate" -> Abs(us[Idx(prob, it.t)] - us[Idx(prob, it.p)]) <= it.h
      [] it.c = "ic" -> x0 = <<Rat(it.h, 1000), Rat(it.h, 1000)>>
      [] OTHER -> TRUE

\* whether it satisfies every item of list nm about the grid points chosen so far
ListSat(prob, nm, x0, us) ==
    prob[nm].k = "list" =>
       \A i \in 1..prob[nm].pts.cnt :
          Idx(prob, ItemAt(prob[nm], i).t) <= Len(us) => Sat(prob, ItemAt(prob[nm], i), x0, us)

\* problem = cp.Problem(objective, model + IC + output + inputs + rate), line 487,
\* over variables u declared nonneg at line 474
Feasible(prob, x0, us) ==
    /\ prob["u"].attr = "nonneg" => \A i \in 1..Len(us) : us[i] >= 0
    /\ ListSat(prob, "IC", x0, us)
    /\ ListSat(prob, "inputs", x0, us)
    /\ ListSat(prob, "rate", x0, us)

\* candidate values: inputs in percent, disturbances and initial states in degrees
UCand == {-1, 0, 1, 2, 3, u(50) \div 1000, 100, 101}
DCand == {Rat(d(0), 1000), Rat(d(400), 1000)}
X0Cand == {<<Rat(Milli(Tamb), 1000), Rat(Milli(Tamb), 1000)>>, <<RInt(30), RInt(30)>>}

InitTraj ==
    /\ Fresh
    /\ RIdle
    /\ TrajIdle

\* the control cell poses its problem; a candidate x[0] and u[0] are chosen
TrajPose ==
    /\ tk = 0
    /\ tk' = 1
    /\ tx' \in X0Cand
    /\ tu' \in {<<u0>> : u0 \in UCand}
    /\ tfl' = [x0 |-> tx', ds |-> <<>>, prob |-> Problem]
    /\ UNCHANGED <<nbvars, rvars>>

\* one grid step: x[t] from x[t-dt], u[t-dt] and a disturbance, and a choice of u[t]
TrajStep ==
    /\ tk >= 1
    /\ tk <= Horizon
    /\ tfl.prob["model"].k = "list"
    /\ tx[1].d <= QCap /\ tx[2].d <= QCap
    /\ LET it == ItemAt(tfl.prob["model"], tk)
       IN  /\ Idx(tfl.prob, it.t) = tk + 1 /\ Idx(tfl.prob, it.p) = tk
           /\ \E dd \in DCand : tx' = Euler(tx, RInt(tu[tk]), dd, it.h)
                                /\ tfl' = [tfl EXCEPT !.ds = Append(@, dd)]
    /\ \E un \in UCand : tu' = Append(tu, un)
    /\ tk' = tk + 1
    /\ UNCHANGED <<nbvars, rvars>>

NextTraj == TrajPose \/ TrajStep

SpecTraj == InitTraj /\ [][NextTraj]_vars

Ambient == <<Rat(Milli(Tamb), 1000), Rat(Milli(Tamb), 1000)>>

\* C2: with u = 0 at every step, d = Tamb at every step and x[0] = [Tamb, Tamb], the
\* state is exactly [Tamb, Tamb] at every grid point.
AmbientIsEquilibrium ==
    (/\ tk >= 1
     /\ tfl.x0 = Ambient
     /\ \A i \in 1..Len(tu) : tu[i] = 0
     /\ \A i \in 1..Len(tfl.ds) : tfl.ds[i] = Rat(Milli(Tamb), 1000))
    => tx = Ambient

\* C2 witness: Horizon steps taken from ambient with zero input and ambient disturbance
AmbientPropagated ==
    /\ tk = Horizon + 1
    /\ tfl.x0 = Ambient
    /\ \A i \in 1..Len(tu) : tu[i] = 0
    /\ \A i \in 1..Len(tfl.ds) : tfl.ds[i] = Rat(Milli(Tamb), 1000)

\* C3: every feasible solution of the tracking control problem has x[0] = [Tamb, Tamb],
\* 0 <= u[t] <= 100 at every grid point, and |u[t] - u[t-dt]| <= dt*1 at every grid
\* point but the first.
FeasibleInputsBounded ==
    (tk >= 1 /\ Feasible(tfl.prob, tfl.x0, tu)) =>
       /\ tfl.x0 = Ambient
       /\ \A i \in 1..Len(tu) : 0 <= tu[i] /\ tu[i] <= 100
       /\ \A i \in 2..Len(tu) : Abs(tu[i] - tu[i - 1]) <= tfl.prob["dt"].v * 1

\* C3 witness: a feasible solution over the whole horizon whose input moves
FeasibleMovingInput ==
    /\ tk = Horizon + 1
    /\ Feasible(tfl.prob, tfl.x0, tu)
    /\ \E i \in 2..Len(tu) : tu[i] # tu[i - 1]

(***************************************************************************)
(* Properties of the namespace machine (Spec).                             *)
(***************************************************************************)
Grid == ns["t_grid"].pts

\* C1: in both discrete-time cells the list model holds, for every grid point t other
\* than the first, the forward-Euler constraint on x[t] with step dt that refers to
\* x, u and d at the grid point just before t; no grid step is left out, and no
\* lookup x[t], x[t-dt], u[t-dt] ever misses a key (no cell ends in a KeyError).
EulerAtEveryGridStep ==
    /\ last.kind # "KeyError"
    /\ \A nm \in {"x", "y", "u"} : ns[nm].k = "dict" => ns[nm].pts = Grid
    /\ ns["model"].k = "list" =>
          /\ ns["model"].v \in {408, 481}
          /\ ns["model"].pts.cnt = Grid.cnt - 1
          /\ \A i \in 2..Grid.cnt :
                LET it == ItemAt(ns["model"], i - 1)
                IN  /\ it.c = "euler"
                    /\ it.t = PointAt(Grid, i)
                    /\ it.p = PointAt(Grid, i - 1)
                    /\ it.h = ns["dt"].v

\* C1 witness: the tracking simulation cell has run through and built all 500 constraints
SimulationModelBuilt ==
    /\ last = NoFault
    /\ ns["model"].v = 408
    /\ ns["problem"].v = 413
    /\ ns["model"].pts.cnt = 500

\* C6: executed in file order from a fresh namespace, cells In[92], In[93], In[96] run
\* through, and In[98] ends in the first fault: a NameError on t_final at line 130, with
\* tf bound (to 200) and t_final unbound.  The fault ends the cell: its model, created at
\* line 128, has nothing declared on it and is never discretized or solved, and the
\* cell's plots are not made (fig and ax are still those of In[96]).
FirstFaultIsTFinal ==
    /\ pos \in 1..3 => last = NoFault
    /\ pos = 4 =>
          /\ last = Fault("NameError", "t_final", 130)
          /\ ns["t_final"] = Unbound
          /\ ns["tf"] = Num(200, 0)
          /\ ns["m"] = Obj("ConcreteModel", 128)
          /\ pm = PmEmpty(128)
          /\ ns["heater1"].v = 70
          /\ ns["fig"].v = 84 /\ ns["ax"].v = 84
          /\ runs = 4

\* C6 witness: the first four cells have been executed in file order
FourCellsInFileOrder == pos = 4 /\ last.kind = "NameError"

\* C7 (as claimed): in an execution in file order no cell reads a name that no earlier
\* cell has bound, so no cell ends in a NameError.
ReadsBoundByEarlierCells == pos >= 1 => last.kind # "NameError"

\* C8 (as claimed): the initial heater and sensor temperatures fixed on a DAE model
\* equal the ambient temperature Tamb.
InitialConditionsAreAmbient ==
    /\ pm.th0 # -1 => pm.th0 = Milli(ns["Tamb"])
    /\ pm.ts0 # -1 => pm.ts0 = Milli(ns["Tamb"])

\* C9 (as claimed): the model of the control-to-a-target cell (created at line 128) has
\* the power input as a decision variable and a terminal equality constraint
\* Th(final time) = 60.
TargetCellHasTerminalConstraint ==
    pm.by = 128 => pm.input = "var" /\ pm.terminal /\ pm.target = 60000

\* the names a cell assigns
Assigned(c) ==
    UNION {{Cells[c][i].binds[j].n : j \in 1..Len(Cells[c][i].binds)} :
              i \in 1..Len(Cells[c])}

\* the names assigned by more than one cell to different values
Rebound ==
    {"tf", "u", "m", "heater1", "sensor1", "fig", "ax", "objective", "x", "y", "model",
     "output", "IC", "problem", "fix", "a"}

\* C10 (as claimed): once a name is bound, no cell execution changes what it denotes.
BindingsImmutable ==
    [][\A nm \in Names : ns[nm].k # "unbound" => ns'[nm] = ns[nm]]_vars

\* C10 (amended): a cell execution changes only names the cell assigns; every name
\* outside Rebound keeps its value once bound; and when u denotes the dict of decision
\* variables of the tracking control cell, executing the tracking simulation cell ends
\* in a TypeError on the call u(t-dt) at line 408 instead of building its model.
RebindingBreaksSimulationCell ==
    [][/\ \A c \in 1..Len(Cells) :
             RunCell(c) => \A nm \in Names \ Assigned(c) : ns'[nm] = ns[nm]
       /\ \A nm \in Names \ Rebound : ns[nm].k # "unbound" => ns'[nm] = ns[nm]
       /\ (ns["u"].k = "dict" /\ In56) =>
             /\ last' = Fault("TypeError", "u", 408)
             /\ ns'["model"] = ns["model"]]_vars

\* C10 witness: the simulation cell has faulted on u, the dict bound at line 474,
\* after the control cell had built its problem
SimulationCellFaultsOnDict ==
    /\ ns["u"].v = 474
    /\ ns["problem"].v = 487
    /\ last = Fault("TypeError", "u", 408)

====
